---------------------------- MODULE Spec2Model ----------------------------
(***************************************************************************)
(* CHIP-8 virtual machine of src/src/main.rs: the VM struct, VM::new,      *)
(* VM::load_rom, VM::load_font, VM::step, VM::step_timers, and the driver  *)
(* (main) that owns the key state and the redraw flag between steps.       *)
(***************************************************************************)
EXTENDS Integers, Sequences, FiniteSets, TLC

(***************************************************************************)
(* Program constants.                                                      *)
(***************************************************************************)
FB_WIDTH == 64

FB_HEIGHT == 32

MEMORY_SIZE == 4096

ROM_START == 512

FONT_START == 80

FONT_BYTES == 80

FONT ==
  << 240, 144, 144, 144, 240,
      32,  96,  32,  32, 112,
     240,  16, 240, 128, 240,
     240,  16, 240,  16, 240,
     144, 144, 240,  16,  16,
     240, 128, 240,  16, 240,
     240, 128, 240, 144, 240,
     240,  16,  32,  64,  64,
     240, 144, 240, 144, 240,
     240, 144, 240,  16, 240,
     240, 144, 240, 144, 144,
     224, 144, 224, 144, 224,
     240, 128, 128, 128, 240,
     224, 144, 144, 144, 224,
     240, 128, 240, 128, 240,
     240, 128, 240, 128, 128 >>

(***************************************************************************)
(* Bounds of the model.                                                    *)
(***************************************************************************)
\* registers used as x and y by the generated programs: 0..RegSpan and VF
RegSpan == 1

\* bytes rand::random::<u8>() may return in the model: those within
\* RandSpan of 0, 128 and 256
RandSpan == 1

\* keys the driver may report pressed: 0..KeySpan-1 and key F
KeySpan == 2

\* keyboard polls of the driver in one run
MaxPolls == 1

\* frames the renderer consumes in one run
MaxFrames == 1

\* depth of the call stack explored
MaxStack == 2

\* bytes by which a rejected ROM exceeds the memory
MaxExcess == 1

(***************************************************************************)
(* Integer helpers: fixed-width arithmetic and bitwise operators.          *)
(***************************************************************************)
Pow2(k) == CASE k = 0 -> 1 [] k = 1 -> 2 [] k = 2 -> 4 [] k = 3 -> 8
             [] k = 4 -> 16 [] k = 5 -> 32 [] k = 6 -> 64 [] k = 7 -> 128
             [] k = 8 -> 256 [] k = 12 -> 4096 [] k = 16 -> 65536

Bit(a, k) == (a \div Pow2(k)) % 2

U8(n) == n % 256

U16(n) == n % 65536

BitOr(a, b) == IF a + b > 0 THEN 1 ELSE 0

BitAnd(a, b) == a * b

BitXor(a, b) == (a + b) % 2

\* a | b on u8
Or8(a, b) ==
  BitOr(Bit(a, 0), Bit(b, 0)) + 2 * BitOr(Bit(a, 1), Bit(b, 1))
  + 4 * BitOr(Bit(a, 2), Bit(b, 2)) + 8 * BitOr(Bit(a, 3), Bit(b, 3))
  + 16 * BitOr(Bit(a, 4), Bit(b, 4)) + 32 * BitOr(Bit(a, 5), Bit(b, 5))
  + 64 * BitOr(Bit(a, 6), Bit(b, 6)) + 128 * BitOr(Bit(a, 7), Bit(b, 7))

\* a & b on u8
And8(a, b) ==
  BitAnd(Bit(a, 0), Bit(b, 0)) + 2 * BitAnd(Bit(a, 1), Bit(b, 1))
  + 4 * BitAnd(Bit(a, 2), Bit(b, 2)) + 8 * BitAnd(Bit(a, 3), Bit(b, 3))
  + 16 * BitAnd(Bit(a, 4), Bit(b, 4)) + 32 * BitAnd(Bit(a, 5), Bit(b, 5))
  + 64 * BitAnd(Bit(a, 6), Bit(b, 6)) + 128 * BitAnd(Bit(a, 7), Bit(b, 7))

\* a ^ b on u8
Xor8(a, b) ==
  BitXor(Bit(a, 0), Bit(b, 0)) + 2 * BitXor(Bit(a, 1), Bit(b, 1))
  + 4 * BitXor(Bit(a, 2), Bit(b, 2)) + 8 * BitXor(Bit(a, 3), Bit(b, 3))
  + 16 * BitXor(Bit(a, 4), Bit(b, 4)) + 32 * BitXor(Bit(a, 5), Bit(b, 5))
  + 64 * BitXor(Bit(a, 6), Bit(b, 6)) + 128 * BitXor(Bit(a, 7), Bit(b, 7))

(***************************************************************************)
(* State.                                                                  *)
(*   vm        the VM struct (v, pc, i, memory, stack, framebuffer,        *)
(*             draw_flag, keyboard, delay_timer, sound_timer)              *)
(*   rom_data  main's ROM bytes, as returned by parse_args                 *)
(*   status    "running", or how the process ended: a panic message or     *)
(*             the exit of load_rom                                        *)
(*   loaded    which of load_rom / load_font main has called               *)
(*   opcode    the opcode fetched by the last step (-1: none)              *)
(*   prev_opcode   the opcode fetched by the step before it                *)
(*   last      the operation performed last                                *)
(*   prev      the VM struct as it was before that operation               *)
(*   polls, frames   driver iterations so far                              *)
(***************************************************************************)
VARIABLES vm, rom_data, status, loaded, opcode, prev_opcode, last, prev, polls, frames

vars == <<vm, rom_data, status, loaded, opcode, prev_opcode, last, prev, polls, frames>>

\* VM::new
New ==
  [ v |-> [r \in 0..15 |-> 0],
    pc |-> ROM_START,
    i |-> 0,
    memory |-> [a \in 0..(MEMORY_SIZE - 1) |-> 0],
    stack |-> << >>,
    framebuffer |-> [p \in 0..(FB_WIDTH * FB_HEIGHT - 1) |-> 0],
    delay_timer |-> 0,
    sound_timer |-> 0,
    keyboard |-> [k \in 0..15 |-> FALSE],
    draw_flag |-> FALSE ]

\* outcome of an operation: the struct it leaves and the panic it ended in
Ok(m) == [vm |-> m, panic |-> "none"]

Panic(m, msg) == [vm |-> m, panic |-> msg]

\* the panics of step: an index past the end of memory or of keyboard, and
\* expect("REASON") on the None of an empty stack; the exit of load_rom
MemoryBounds == "index out of bounds: the len is 4096"

KeyboardBounds == "index out of bounds: the len is 16"

StackUnderflow == "REASON"

RomTooLarge == "ROM too large"

(***************************************************************************)
(* VM::step, opcode by opcode.  Each operator takes the struct m as it is  *)
(* after the fetch and `self.pc += 2`, and yields an outcome.              *)
(***************************************************************************)
\* 00E0 as it would be with the loop ending one row early
ClearScreenButLastRow(m) ==
  Ok([m EXCEPT !.framebuffer = [p \in 0..(FB_WIDTH * FB_HEIGHT - 1) |->
                                  IF p < FB_WIDTH * (FB_HEIGHT - 1) THEN 0 ELSE @[p]],
               !.draw_flag = TRUE])

\* 00E0: CLEAR SCREEN
ClearScreen(m) ==
  Ok([m EXCEPT !.framebuffer = [p \in 0..(FB_WIDTH * FB_HEIGHT - 1) |-> 0],
               !.draw_flag = TRUE])

\* 00EE as it would be reading the top of the stack without removing it
RetKeepsTop(m) ==
  IF Len(m.stack) = 0
    THEN Panic(m, StackUnderflow)
    ELSE Ok([m EXCEPT !.pc = m.stack[Len(m.stack)]])

\* 00EE: RET; stack.pop() is None on an empty Vec and expect("REASON") panics
Ret(m) ==
  IF Len(m.stack) = 0
    THEN Panic(m, StackUnderflow)
    ELSE Ok([m EXCEPT !.pc = m.stack[Len(m.stack)],
                      !.stack = SubSeq(m.stack, 1, Len(m.stack) - 1)])

\* 1nnn: JUMP nnn
Jump(m, nnn) == Ok([m EXCEPT !.pc = nnn])

\* 2nnn: CALL nnn
Call(m, nnn) == Ok([m EXCEPT !.stack = Append(m.stack, m.pc), !.pc = nnn])

\* 3xnn: SE Vx, byte
SeByte(m, x, nn) == Ok(IF m.v[x] = U8(nn) THEN [m EXCEPT !.pc = m.pc + 2] ELSE m)

\* 4xnn: SNE Vx, byte
SneByte(m, x, nn) == Ok(IF m.v[x] # U8(nn) THEN [m EXCEPT !.pc = m.pc + 2] ELSE m)

\* 5xy?: SE Vx, Vy
SeReg(m, x, y) == Ok(IF m.v[x] = m.v[y] THEN [m EXCEPT !.pc = m.pc + 2] ELSE m)

\* 6xnn: LOAD Vx, nn
LoadByte(m, x, nn) == Ok([m EXCEPT !.v[x] = U8(nn)])

\* 7xnn: ADD Vx, nn (wrapping_add)
AddByte(m, x, nn) == Ok([m EXCEPT !.v[x] = U8(m.v[x] + U8(nn))])

\* 8xy4 as it would be with the carry taken from sum >= 255
AddRegCarryAt255(m, x, y) ==
  LET sum == U8(m.v[x] + m.v[y])
      carry == m.v[x] + m.v[y] >= 255
      m1 == [m EXCEPT !.v[x] = sum]
  IN  Ok([m1 EXCEPT !.v[15] = IF carry THEN 1 ELSE 0])

\* 8xy4: ADD Vx, Vy; Vx is written first, VF last
AddReg(m, x, y) ==
  LET sum == U8(m.v[x] + m.v[y])
      carry == m.v[x] + m.v[y] > 255
      m1 == [m EXCEPT !.v[x] = sum]
  IN  Ok([m1 EXCEPT !.v[15] = IF carry THEN 1 ELSE 0])

\* 8xy5 as it would be with a borrow reported for equal operands
SubRegBorrowOnEqual(m, x, y) ==
  LET diff == U8(m.v[x] - m.v[y] + 256)
      borrow == m.v[x] <= m.v[y]
      m1 == [m EXCEPT !.v[x] = diff]
  IN  Ok([m1 EXCEPT !.v[15] = IF borrow THEN 0 ELSE 1])

\* 8xy5: SUB Vx, Vy
SubReg(m, x, y) ==
  LET diff == U8(m.v[x] - m.v[y] + 256)
      borrow == m.v[x] < m.v[y]
      m1 == [m EXCEPT !.v[x] = diff]
  IN  Ok([m1 EXCEPT !.v[15] = IF borrow THEN 0 ELSE 1])

\* 8xy6: SHR Vx; VF is written first, then Vx is shifted
ShrReg(m, x) ==
  LET m1 == [m EXCEPT !.v[15] = m.v[x] % 2]
  IN  Ok([m1 EXCEPT !.v[x] = m1.v[x] \div 2])

\* 8xy7: SUBN Vx, Vy
SubnReg(m, x, y) ==
  LET diff == U8(m.v[y] - m.v[x] + 256)
      borrow == m.v[y] < m.v[x]
      m1 == [m EXCEPT !.v[x] = diff]
  IN  Ok([m1 EXCEPT !.v[15] = IF borrow THEN 0 ELSE 1])

\* 8xyE as it would be with the flag taken from the lowest bit, as in 8xy6
ShlRegFlagLsb(m, x) ==
  LET m1 == [m EXCEPT !.v[15] = m.v[x] % 2]
  IN  Ok([m1 EXCEPT !.v[x] = U8(m1.v[x] * 2)])

\* 8xyE: SHL Vx; VF is written first, then Vx is shifted
ShlReg(m, x) ==
  LET m1 == [m EXCEPT !.v[15] = (m.v[x] \div 128) % 2]
  IN  Ok([m1 EXCEPT !.v[x] = U8(m1.v[x] * 2)])

\* 8xyn: the match on n
Alu(m, x, y, n) ==
  CASE n = 0 -> Ok([m EXCEPT !.v[x] = m.v[y]])
    [] n = 1 -> Ok([m EXCEPT !.v[x] = Or8(m.v[x], m.v[y])])
    [] n = 2 -> Ok([m EXCEPT !.v[x] = And8(m.v[x], m.v[y])])
    [] n = 3 -> Ok([m EXCEPT !.v[x] = Xor8(m.v[x], m.v[y])])
    [] n = 4 -> AddReg(m, x, y)
    [] n = 5 -> SubReg(m, x, y)
    [] n = 6 -> ShrReg(m, x)
    [] n = 7 -> SubnReg(m, x, y)
    [] n = 14 -> ShlReg(m, x)
    [] OTHER -> Ok(m)

\* 9xy?: SNE Vx, Vy
SneReg(m, x, y) == Ok(IF m.v[x] # m.v[y] THEN [m EXCEPT !.pc = m.pc + 2] ELSE m)

\* Annn: LOAD i, nnn
LoadI(m, nnn) == Ok([m EXCEPT !.i = nnn])

\* Bnnn: JUMP V0, nnn
JumpV0(m, nnn) == Ok([m EXCEPT !.pc = nnn + m.v[0]])

\* Cxnn: RND Vx, byte
Rnd(m, x, nn, rnd_byte) == Ok([m EXCEPT !.v[x] = And8(rnd_byte, U8(nn))])

\* the inner loop of Dxyn as it would be lighting a pixel with 1, not 0xFF
RECURSIVE DrawColsOnAsOne(_, _, _, _, _, _)
DrawColsOnAsOne(m, vx, vy, row, sprite_byte, col) ==
  IF col >= 8 THEN m
  ELSE
    LET fb_idx == (((vy + row) % FB_HEIGHT) * FB_WIDTH) + ((vx + col) % FB_WIDTH)
        fb_byte == m.framebuffer[fb_idx]
        sprite_pixel == Bit(sprite_byte, 7 - col)
        m1 == IF sprite_pixel # 0 /\ fb_byte = 0
                THEN [m EXCEPT !.framebuffer[fb_idx] = 1]
                ELSE IF sprite_pixel # 0 /\ fb_byte = 255
                  THEN [m EXCEPT !.v[15] = 1, !.framebuffer[fb_idx] = 0]
                  ELSE m
    IN  DrawColsOnAsOne(m1, vx, vy, row, sprite_byte, col + 1)

\* Dxyn, inner loop: the pixels col..7 of one sprite row
RECURSIVE DrawCols(_, _, _, _, _, _)
DrawCols(m, vx, vy, row, sprite_byte, col) ==
  IF col >= 8 THEN m
  ELSE
    LET fb_idx == (((vy + row) % FB_HEIGHT) * FB_WIDTH) + ((vx + col) % FB_WIDTH)
        fb_byte == m.framebuffer[fb_idx]
        sprite_pixel == Bit(sprite_byte, 7 - col)
        m1 == IF sprite_pixel # 0 /\ fb_byte = 0
                THEN [m EXCEPT !.framebuffer[fb_idx] = 255]
                ELSE IF sprite_pixel # 0 /\ fb_byte = 255
                  THEN [m EXCEPT !.v[15] = 1, !.framebuffer[fb_idx] = 0]
                  ELSE m
    IN  DrawCols(m1, vx, vy, row, sprite_byte, col + 1)

\* Dxyn as it would be with a collision reported but the pixel left lit
RECURSIVE DrawRowsNoErase(_, _, _, _, _)
DrawRowsNoErase(m, vx, vy, n, row) ==
  IF row >= n THEN Ok([m EXCEPT !.draw_flag = TRUE])
  ELSE IF m.i + row >= MEMORY_SIZE THEN Panic(m, MemoryBounds)
  ELSE LET drawn == DrawCols(m, vx, vy, row, m.memory[m.i + row], 0)
           kept == [drawn EXCEPT !.framebuffer =
                      [p \in 0..(FB_WIDTH * FB_HEIGHT - 1) |->
                         IF m.framebuffer[p] = 255 THEN 255 ELSE @[p]]]
       IN  DrawRowsNoErase(kept, vx, vy, n, row + 1)

\* Dxyn, outer loop: the sprite rows row..n-1, each read from memory[i + row]
RECURSIVE DrawRows(_, _, _, _, _)
DrawRows(m, vx, vy, n, row) ==
  IF row >= n THEN Ok([m EXCEPT !.draw_flag = TRUE])
  ELSE IF m.i + row >= MEMORY_SIZE THEN Panic(m, MemoryBounds)
  ELSE DrawRows(DrawCols(m, vx, vy, row, m.memory[m.i + row], 0), vx, vy, n, row + 1)

\* Dxyn: DRAW Vx, Vy, n; Vx and Vy are read before VF is reset
Draw(m, x, y, n) ==
  LET vx == m.v[x]
      vy == m.v[y]
  IN  DrawRows([m EXCEPT !.v[15] = 0], vx, vy, n, 0)

\* Ex9E: SKP Vx; keyboard has 16 entries and is indexed by Vx as it is
Skp(m, x) ==
  LET key == m.v[x]
  IN  IF key >= 16 THEN Panic(m, KeyboardBounds)
      ELSE Ok(IF m.keyboard[key] THEN [m EXCEPT !.pc = m.pc + 2] ELSE m)

\* ExA1: SKNP Vx
Sknp(m, x) ==
  LET key == m.v[x]
  IN  IF key >= 16 THEN Panic(m, KeyboardBounds)
      ELSE Ok(IF ~m.keyboard[key] THEN [m EXCEPT !.pc = m.pc + 2] ELSE m)

\* Fx0A as it would be with the scan of the keys running downwards
GetKeyFromTop(m, x) ==
  LET pressed == {key \in 0..15 : m.keyboard[key]}
  IN  IF pressed # {}
        THEN Ok([m EXCEPT !.v[x] = CHOOSE key \in pressed :
                                     \A other \in pressed : key >= other])
        ELSE Ok([m EXCEPT !.pc = m.pc - 2])

\* Fx0A: Vx = get_key(); the first pressed key in 0..15, else pc -= 2
GetKey(m, x) ==
  LET pressed == {key \in 0..15 : m.keyboard[key]}
  IN  IF pressed # {}
        THEN Ok([m EXCEPT !.v[x] = CHOOSE key \in pressed :
                                     \A other \in pressed : key <= other])
        ELSE Ok([m EXCEPT !.pc = m.pc - 2])

\* Fx1E: ADD I, Vx (wrapping_add on u16)
AddI(m, x) == Ok([m EXCEPT !.i = U16(m.i + m.v[x])])

\* Fx29: I = sprite_addr[Vx]
FontAddr(m, x) == Ok([m EXCEPT !.i = FONT_START + m.v[x] * 5])

\* Fx33: set_BCD(Vx); three writes in order, each bounds-checked
Bcd(m, x) ==
  LET vx == m.v[x]
      m1 == [m EXCEPT !.memory[m.i] = vx \div 100]
      m2 == [m1 EXCEPT !.memory[m.i + 1] = (vx % 100) \div 10]
      m3 == [m2 EXCEPT !.memory[m.i + 2] = vx % 10]
  IN  IF m.i >= MEMORY_SIZE THEN Panic(m, MemoryBounds)
      ELSE IF m.i + 1 >= MEMORY_SIZE THEN Panic(m1, MemoryBounds)
      ELSE IF m.i + 2 >= MEMORY_SIZE THEN Panic(m2, MemoryBounds)
      ELSE Ok(m3)

\* Fx55: LD [I], V0..Vx; the loop from idx on
RECURSIVE StoreRegs(_, _, _)
StoreRegs(m, x, idx) ==
  IF idx > x THEN Ok(m)
  ELSE IF m.i + idx >= MEMORY_SIZE THEN Panic(m, MemoryBounds)
  ELSE StoreRegs([m EXCEPT !.memory[m.i + idx] = m.v[idx]], x, idx + 1)

\* Fx65: LD V0..Vx, [I]; the loop from idx on
RECURSIVE LoadRegs(_, _, _)
LoadRegs(m, x, idx) ==
  IF idx > x THEN Ok(m)
  ELSE IF m.i + idx >= MEMORY_SIZE THEN Panic(m, MemoryBounds)
  ELSE LoadRegs([m EXCEPT !.v[idx] = m.memory[m.i + idx]], x, idx + 1)

\* Fxnn: the match on nn
Misc(m, x, nn) ==
  CASE nn = 7 -> Ok([m EXCEPT !.v[x] = m.delay_timer])
    [] nn = 10 -> GetKey(m, x)
    [] nn = 21 -> Ok([m EXCEPT !.delay_timer = m.v[x]])
    [] nn = 24 -> Ok([m EXCEPT !.sound_timer = m.v[x]])
    [] nn = 30 -> AddI(m, x)
    [] nn = 41 -> FontAddr(m, x)
    [] nn = 51 -> Bcd(m, x)
    [] nn = 85 -> StoreRegs(m, x, 0)
    [] nn = 101 -> LoadRegs(m, x, 0)
    [] OTHER -> Ok(m)

\* the opcode at pc, big-endian; -1 when a byte of it lies outside memory
Fetch(m) ==
  IF m.pc >= MEMORY_SIZE \/ m.pc + 1 >= MEMORY_SIZE THEN -1
  ELSE m.memory[m.pc] * 256 + m.memory[m.pc + 1]

\* the match on the top nibble of op, on the struct m after pc += 2
Exec(m, op, rnd_byte) ==
  LET nnn == op % 4096
      nn == op % 256
      n == op % 16
      x == (op \div 256) % 16
      y == (op \div 16) % 16
      top == op \div 4096
  IN  CASE top = 0 -> (CASE nn = 224 -> ClearScreen(m)
                         [] nn = 238 -> Ret(m)
                         [] OTHER -> Ok(m))
        [] top = 1 -> Jump(m, nnn)
        [] top = 2 -> Call(m, nnn)
        [] top = 3 -> SeByte(m, x, nn)
        [] top = 4 -> SneByte(m, x, nn)
        [] top = 5 -> SeReg(m, x, y)
        [] top = 6 -> LoadByte(m, x, nn)
        [] top = 7 -> AddByte(m, x, nn)
        [] top = 8 -> Alu(m, x, y, n)
        [] top = 9 -> SneReg(m, x, y)
        [] top = 10 -> LoadI(m, nnn)
        [] top = 11 -> JumpV0(m, nnn)
        [] top = 12 -> Rnd(m, x, nn, rnd_byte)
        [] top = 13 -> Draw(m, x, y, n)
        [] top = 14 -> (CASE nn = 158 -> Skp(m, x)
                          [] nn = 161 -> Sknp(m, x)
                          [] OTHER -> Ok(m))
        [] top = 15 -> Misc(m, x, nn)

\* step as it would be raising the redraw flag at the end of every instruction
stepAlwaysRedraws(m, rnd_byte) ==
  IF Fetch(m) = -1 THEN Panic(m, MemoryBounds)
  ELSE LET r == Exec([m EXCEPT !.pc = m.pc + 2], Fetch(m), rnd_byte)
       IN  IF r.panic = "none" THEN Ok([r.vm EXCEPT !.draw_flag = TRUE]) ELSE r

\* VM::step: fetch, pc += 2, dispatch
step(m, rnd_byte) ==
  IF Fetch(m) = -1 THEN Panic(m, MemoryBounds)
  ELSE Exec([m EXCEPT !.pc = m.pc + 2], Fetch(m), rnd_byte)

\* step_timers as it would be decrementing with wrapping_sub and no test
step_timers_wrapping(m) ==
  [m EXCEPT !.delay_timer = U8(m.delay_timer + 255), !.sound_timer = U8(m.sound_timer + 255)]

\* VM::step_timers
step_timers(m) ==
  LET m1 == IF m.delay_timer > 0 THEN [m EXCEPT !.delay_timer = m.delay_timer - 1] ELSE m
  IN  IF m1.sound_timer > 0 THEN [m1 EXCEPT !.sound_timer = m1.sound_timer - 1] ELSE m1

\* VM::load_font
load_font(m) ==
  [m EXCEPT !.memory = [a \in 0..(MEMORY_SIZE - 1) |->
      IF a >= FONT_START /\ a < FONT_START + FONT_BYTES
        THEN FONT[a - FONT_START + 1] ELSE m.memory[a]]]

\* load_rom as it would be zeroing the memory outside the ROM image
load_rom_clearing(m, rom) ==
  LET end == ROM_START + Len(rom)
  IN  IF end > MEMORY_SIZE THEN Panic(m, RomTooLarge)
      ELSE Ok([m EXCEPT !.memory = [a \in 0..(MEMORY_SIZE - 1) |->
                 IF a >= ROM_START /\ a < end THEN rom[a - ROM_START + 1] ELSE 0]])

\* load_rom as it would be rejecting a ROM that ends exactly at the last byte
load_rom_strict(m, rom) ==
  LET end == ROM_START + Len(rom)
  IN  IF end >= MEMORY_SIZE THEN Panic(m, RomTooLarge)
      ELSE Ok([m EXCEPT !.memory = [a \in 0..(MEMORY_SIZE - 1) |->
                 IF a >= ROM_START /\ a < end
                   THEN rom[a - ROM_START + 1] ELSE m.memory[a]]])

\* VM::load_rom: process::exit(1) before any write when the ROM does not fit
load_rom(m, rom) ==
  LET end == ROM_START + Len(rom)
  IN  IF end > MEMORY_SIZE THEN Panic(m, RomTooLarge)
      ELSE Ok([m EXCEPT !.memory = [a \in 0..(MEMORY_SIZE - 1) |->
                 IF a >= ROM_START /\ a < end
                   THEN rom[a - ROM_START + 1] ELSE m.memory[a]]])

(***************************************************************************)
(* The inputs: ROM images, random bytes and key states.                    *)
(***************************************************************************)
\* the opcode with nibbles a b c d
Op(a, b, c, d) == a * 4096 + b * 256 + c * 16 + d

\* a program as ROM bytes, two per opcode, high byte first
Asm(ops) ==
  [k \in 1..(2 * Len(ops)) |->
     IF k % 2 = 1 THEN ops[(k + 1) \div 2] \div 256 ELSE ops[k \div 2] % 256]

\* ops followed by a jump to itself, so that the run stays there
Prog(ops) == Asm(ops \o << 4096 + ROM_START + 2 * Len(ops) >>)

Regs == (0..RegSpan) \cup {15}

RandBytes == {b \in 0..255 : (b % 128) < RandSpan \/ (b % 128) >= 128 - RandSpan}

KeyStates == {[k \in 0..15 |-> k \in s] : s \in SUBSET ((0..(KeySpan - 1)) \cup {15})}

\* two random registers and one 8xyn
AluOps == {4, 5, 7}

AluPrograms ==
  {<< Op(12, x, 15, 15), Op(12, y, 15, 15), Op(8, x, y, n) >> :
      x \in Regs, y \in Regs, n \in AluOps}

\* I = 0xFFF, then 240 times I += 0xFF and once I += 0xF0: I = 0xFFFF
IndexToMax ==
  << Op(10, 15, 15, 15), Op(6, 0, 15, 15) >> \o [k \in 1..240 |-> Op(15, 0, 1, 14)]
  \o << Op(6, 0, 15, 0), Op(15, 0, 1, 14) >>

\* programs whose pc or I leaves the 4096 bytes of memory
EdgePrograms ==
  { << Op(1, 15, 15, 14) >>,
    << Op(1, 15, 15, 15) >>,
    << Op(6, 0, 15, 15), Op(11, 15, 15, 15) >>,
    << Op(10, 15, 15, 14), Op(15, 0, 3, 3) >>,
    << Op(10, 15, 15, 13), Op(15, 0, 3, 3) >>,
    << Op(10, 15, 15, 14), Op(13, 0, 0, 3) >>,
    << Op(10, 15, 15, 15), Op(15, 1, 5, 5) >>,
    << Op(10, 15, 15, 15), Op(15, 1, 6, 5) >>,
    IndexToMax \o << Op(15, 0, 3, 3) >>,
    IndexToMax \o << Op(6, 0, 0, 2), Op(15, 0, 1, 14), Op(6, 1, 14, 10), Op(15, 1, 3, 3) >> }

\* Fx0A, waiting for the driver's key state
KeyPrograms == {<< Op(15, x, 0, 10) >> : x \in Regs}

\* a glyph drawn across the bottom-right corner, then Vx, Vy and I set and
\* Dxyn run twice, then 00E0 and Dxyn once more
DrawHeights == {0, 1, 5, 15}

DrawPositions == {<< 62, 30 >>, << 200, 255 >>}

SpriteAddrs == {0, FONT_START, ROM_START, MEMORY_SIZE - 2}

DrawPrograms ==
  {<< Op(6, 0, 3, 14), Op(6, 1, 1, 14), Op(10, 0, 5, 10), Op(13, 0, 1, 5),
      Op(6, x, 0, 0) + p[1], Op(6, y, 0, 0) + p[2], Op(10, 0, 0, 0) + a,
      Op(13, x, y, n), Op(13, x, y, n), Op(0, 0, 14, 0), Op(13, x, y, n) >> :
      x \in Regs, y \in Regs, n \in DrawHeights, p \in DrawPositions, a \in SpriteAddrs}

\* V0..VF set, stored with Fx55 at I, V0..Vx zeroed, loaded back with Fx65
StoreAddrs == {768, MEMORY_SIZE - 16, MEMORY_SIZE - 8}

StorePrograms ==
  {[k \in 1..16 |-> Op(6, k - 1, 0, 0) + ((k * 37 + 5) % 256)]
     \o << Op(10, 0, 0, 0) + a, Op(15, x, 5, 5) >>
     \o [k \in 1..(x + 1) |-> Op(6, k - 1, 0, 0)]
     \o << Op(15, x, 6, 5) >> :
     x \in Regs, a \in StoreAddrs}

\* calls and returns
StackPrograms ==
  { << Op(0, 0, 14, 14) >>,
    << Op(2, 2, 0, 4), Op(0, 0, 14, 14), Op(0, 0, 14, 14) >>,
    << Op(2, 2, 0, 4), Op(1, 2, 0, 2), Op(2, 2, 0, 8), Op(0, 0, 14, 14), Op(0, 0, 14, 14) >>,
    << Op(2, 2, 0, 0) >> }

\* the timers set and read back
TimerPrograms == {<< Op(6, 0, 0, 3), Op(15, 0, 1, 5), Op(6, 0, 0, 2), Op(15, 0, 1, 8), Op(15, 1, 0, 7) >>}

\* ROM images of the largest accepted size and of the sizes above it: a
\* jump to itself followed by non-zero bytes
Filler(len) == [k \in 1..len |-> IF k = 1 THEN 18 ELSE IF k = 2 THEN 0 ELSE (k % 255) + 1]

SizeRoms == {Filler(len) : len \in (MEMORY_SIZE - ROM_START)..(MEMORY_SIZE - ROM_START + MaxExcess)}

Roms ==
  {Prog(ops) : ops \in AluPrograms \cup EdgePrograms \cup KeyPrograms \cup DrawPrograms
                        \cup StorePrograms \cup StackPrograms \cup TimerPrograms}
  \cup SizeRoms

\* Ex9E and ExA1 on a key index inside and outside the 16 keys
KeyIndexes == {0, 1, 15, 16, 255}

KeySkipPrograms ==
  {<< Op(6, 1, 0, 0) + k, Op(14, 1, 0, 0) + nn >> : k \in KeyIndexes, nn \in {158, 161}}

\* the programs run with a driver that polls keys and consumes frames
DriverPrograms ==
  KeyPrograms \cup TimerPrograms \cup KeySkipPrograms
  \cup {<< Op(10, 0, 5, 0), Op(13, 0, 1, 5), Op(13, 0, 1, 5), Op(0, 0, 14, 0) >>}

\* ops followed by two jumps to themselves, so that the run stays there
\* whether or not the last opcode skips
Prog2(ops) == Prog(ops \o << 4096 + ROM_START + 2 * Len(ops) >>)

DriverRoms == {Prog2(ops) : ops \in DriverPrograms}

\* words outside the opcode table, and words of it that differ from a table
\* entry in a nibble the dispatch does not look at
OddOps ==
  { Op(0, 0, 0, 0), Op(0, 0, 14, 1), Op(0, 1, 14, 0), Op(0, 1, 14, 14),
    Op(5, 0, 0, 1), Op(5, 0, 1, 1), Op(9, 0, 0, 1), Op(9, 0, 1, 1),
    Op(8, 0, 1, 8), Op(8, 0, 1, 15), Op(14, 0, 0, 0), Op(14, 0, 9, 15),
    Op(15, 0, 0, 0), Op(15, 0, 6, 6), Op(15, 15, 15, 15) }

\* one such word as the first instruction; and V0 = 1, the glyph 0 drawn, the
\* timers set, a call to the next address and then the word, run with a lit
\* screen and a return address on the stack
OddPrograms ==
  {<< op >> : op \in OddOps}
  \cup {<< Op(6, 0, 0, 1), Op(10, 0, 5, 0), Op(13, 0, 1, 5), Op(15, 0, 1, 5),
           Op(15, 0, 1, 8), Op(2, 2, 0, 12), op >> : op \in OddOps}

\* the skips on registers and bytes, with the operands equal and different
SkipValues == {0, 7}

SkipPrograms ==
  {<< Op(6, 0, 0, 7), Op(6, 1, 0, 0) + b, Op(top, 0, 1, 0) >> :
      b \in SkipValues, top \in {5, 9}}
  \cup {<< Op(6, 0, 0, 0) + b, Op(top, 0, 0, 7) >> : b \in SkipValues, top \in {3, 4}}

\* a random Vx shifted right or left, beside a Vy of 0x55
ShiftPrograms ==
  {<< Op(6, y, 5, 5), Op(12, x, 15, 15), Op(8, x, y, n) >> :
      x \in Regs, y \in Regs, n \in {6, 14}}

\* Fx33 on the values of Vx with 1, 2 and 3 digits, at an address in the
\* middle of memory, at the last that holds three bytes and at the next
BcdValues == {0, 7, 99, 100, 234, 255}

BcdAddrs == {768, MEMORY_SIZE - 3, MEMORY_SIZE - 2}

BcdPrograms ==
  {<< Op(6, x, 0, 0) + v, Op(10, 0, 0, 0) + a, Op(15, x, 3, 3) >> :
      x \in Regs, v \in BcdValues, a \in BcdAddrs}

\* Fx29 on the 16 digits and on values above them; and after a program has
\* stored a register into the font region
FontDigits == {0, 9, 15, 16, 255}

FontPrograms ==
  {<< Op(6, x, 0, 0) + d, Op(15, x, 2, 9) >> : x \in Regs, d \in FontDigits}
  \cup {<< Op(6, 0, 0, 9), Op(10, 0, 5, 0), Op(15, 0, 5, 5), Op(15, 0, 2, 9) >>}

\* calls nested up to the depth explored, with a jump, a load and a skip
\* between the calls and the returns
CallPrograms ==
  { << Op(2, 2, 0, 6), Op(1, 2, 0, 2), Op(0, 0, 0, 0), Op(2, 2, 0, 12), Op(6, 0, 0, 1),
       Op(0, 0, 14, 14), Op(3, 0, 0, 1), Op(0, 0, 14, 14) >> }

\* a sprite whose first row is the next to last byte of memory, set by the
\* program itself, drawn with rows that reach past the last byte
PartialDrawPrograms ==
  {<< Op(6, 0, 15, 15), Op(10, 15, 15, 14), Op(15, 0, 5, 5), Op(13, 1, 1, n) >> : n \in {1, 3}}

OpsRoms ==
  {Prog2(ops) : ops \in OddPrograms \cup SkipPrograms \cup KeySkipPrograms
                         \cup ShiftPrograms \cup BcdPrograms \cup FontPrograms
                         \cup CallPrograms \cup PartialDrawPrograms
                         \cup StackPrograms \cup TimerPrograms \cup KeyPrograms}
  \cup {Filler(MEMORY_SIZE - ROM_START)}

(***************************************************************************)
(* Specification.                                                          *)
(***************************************************************************)
\* main: VM::new() and parse_args()
Init ==
  /\ vm = New
  /\ rom_data \in Roms
  /\ status = "running"
  /\ loaded = {}
  /\ opcode = -1
  /\ prev_opcode = -1
  /\ last = "new"
  /\ prev = New
  /\ polls = 0
  /\ frames = 0

\* main: vm.load_rom(&rom_data)
LoadRom ==
  /\ status = "running"
  /\ "rom" \notin loaded
  /\ last \in {"new", "load_font"}
  /\ LET r == load_rom(vm, rom_data)
     IN  /\ vm' = r.vm
         /\ status' = IF r.panic = "none" THEN "running" ELSE r.panic
  /\ loaded' = loaded \cup {"rom"}
  /\ last' = "load_rom"
  /\ prev' = vm
  /\ UNCHANGED << rom_data, opcode, prev_opcode, polls, frames >>

\* main: vm.load_font()
LoadFont ==
  /\ status = "running"
  /\ "font" \notin loaded
  /\ last \in {"new", "load_rom"}
  /\ vm' = load_font(vm)
  /\ loaded' = loaded \cup {"font"}
  /\ last' = "load_font"
  /\ prev' = vm
  /\ UNCHANGED << rom_data, status, opcode, prev_opcode, polls, frames >>

\* the machine is set up and the driver loop runs
Ready == status = "running" /\ loaded = {"rom", "font"}

\* driver: vm.step(); a call that would grow the stack past MaxStack is not
\* explored
Step ==
  /\ Ready
  /\ ~(Fetch(vm) # -1 /\ Fetch(vm) \div 4096 = 2 /\ Len(vm.stack) >= MaxStack)
  /\ \E rnd_byte \in (IF Fetch(vm) \div 4096 = 12 THEN RandBytes ELSE {0}) :
       LET r == step(vm, rnd_byte)
       IN  /\ vm' = r.vm
           /\ status' = IF r.panic = "none" THEN "running" ELSE r.panic
  /\ opcode' = Fetch(vm)
  /\ prev_opcode' = opcode
  /\ last' = "step"
  /\ prev' = vm
  /\ UNCHANGED << rom_data, loaded, polls, frames >>

\* driver: vm.step_timers()
StepTimers ==
  /\ Ready
  /\ vm' = step_timers(vm)
  /\ last' = "step_timers"
  /\ prev' = vm
  /\ UNCHANGED << rom_data, status, loaded, opcode, prev_opcode, polls, frames >>

\* driver: the key state is overwritten as a whole between steps
Poll ==
  /\ Ready
  /\ polls < MaxPolls
  /\ \E keys \in KeyStates : vm' = [vm EXCEPT !.keyboard = keys]
  /\ polls' = polls + 1
  /\ last' = "poll"
  /\ prev' = vm
  /\ UNCHANGED << rom_data, status, loaded, opcode, prev_opcode, frames >>

\* driver: the renderer consumes a frame and clears the redraw flag
Render ==
  /\ Ready
  /\ frames < MaxFrames
  /\ vm.draw_flag
  /\ vm' = [vm EXCEPT !.draw_flag = FALSE]
  /\ frames' = frames + 1
  /\ last' = "render"
  /\ prev' = vm
  /\ UNCHANGED << rom_data, status, loaded, opcode, prev_opcode, polls >>

\* the machine alone: its set-up and the two operations the driver calls
Next == LoadRom \/ LoadFont \/ Step \/ StepTimers

Spec == Init /\ [][Next]_vars

\* the machine with the driver's own writes to the key state and redraw flag
InitDriver ==
  /\ vm = New
  /\ rom_data \in DriverRoms
  /\ status = "running"
  /\ loaded = {}
  /\ opcode = -1
  /\ prev_opcode = -1
  /\ last = "new"
  /\ prev = New
  /\ polls = 0
  /\ frames = 0

NextDriver == LoadRom \/ LoadFont \/ Step \/ StepTimers \/ Poll \/ Render

SpecDriver == InitDriver /\ [][NextDriver]_vars

\* the machine alone, on the programs that go through the opcode table
InitOps ==
  /\ vm = New
  /\ rom_data \in OpsRoms
  /\ status = "running"
  /\ loaded = {}
  /\ opcode = -1
  /\ prev_opcode = -1
  /\ last = "new"
  /\ prev = New
  /\ polls = 0
  /\ frames = 0

SpecOps == InitOps /\ [][Next]_vars

(***************************************************************************)
(* Properties.                                                             *)
(***************************************************************************)
\* the fields of an opcode
OpTop(op) == op \div 4096

OpX(op) == (op \div 256) % 16

OpY(op) == (op \div 16) % 16

OpN(op) == op % 16

OpNN(op) == op % 256

OpNNN(op) == op % 4096

\* the last operation was a step, and it fetched an opcode
Stepped == last = "step" /\ opcode # -1

\* the smallest element of a non-empty set of numbers
Lowest(s) == CHOOSE k \in s : \A other \in s : k <= other

\* C1: no step reaches a memory access at an address of 4096 or above: the
\* opcode fetch, the sprite rows of Dxyn and the accesses of Fx33, Fx55 and
\* Fx65 all stay inside memory; and after Fx1E the index register addresses
\* (I + Vx) mod 4096.
C1_AccessesInBounds ==
  /\ status # MemoryBounds
  /\ (Stepped /\ OpTop(opcode) = 15 /\ OpNN(opcode) = 30)
       => vm.i % MEMORY_SIZE = (prev.i + prev.v[OpX(opcode)]) % MEMORY_SIZE

\* C2: a step on Fx0A with all 16 keys released changes nothing, pc
\* included, however often it is repeated; with a key pressed it stores the
\* lowest pressed key index in Vx, leaves pc 2 past the instruction and
\* changes nothing else; no operation of the machine writes the key state.
C2_KeyWait ==
  /\ (Stepped /\ OpTop(opcode) = 15 /\ OpNN(opcode) = 10) =>
       LET pressed == {k \in 0..15 : prev.keyboard[k]}
       IN  /\ status = "running"
           /\ pressed = {} => vm = prev
           /\ pressed # {} =>
                vm = [prev EXCEPT !.pc = prev.pc + 2, !.v[OpX(opcode)] = Lowest(pressed)]
  /\ last \in {"step", "step_timers", "load_rom", "load_font"}
       => vm.keyboard = prev.keyboard

\* C2 happens: Fx0A has waited on released keys, then keys 1 and F were
\* pressed and the step stored 1
C2_Witness ==
  /\ Stepped /\ OpTop(opcode) = 15 /\ OpNN(opcode) = 10
  /\ prev_opcode = opcode
  /\ prev.keyboard[1] /\ prev.keyboard[15] /\ ~prev.keyboard[0]
  /\ vm.v[OpX(opcode)] = 1
  /\ vm.pc = prev.pc + 2

\* the last operation was a step on 8xyn with this n
SteppedAlu(n) == Stepped /\ OpTop(opcode) = 8 /\ OpN(opcode) = n

\* C4 as stated: after 8xy4, for every x and y, VF = 1 exactly when
\* a + b > 255 and Vx = (a + b) mod 256.
C4_AsStated ==
  SteppedAlu(4) =>
    LET a == prev.v[OpX(opcode)]
        b == prev.v[OpY(opcode)]
    IN  /\ vm.v[15] = (IF a + b > 255 THEN 1 ELSE 0)
        /\ vm.v[OpX(opcode)] = (a + b) % 256

\* C4: after 8xy4, VF = 1 exactly when a + b > 255 and otherwise 0, for every
\* x and y; Vx = (a + b) mod 256 when x is not 0xF (for x = 0xF the flag is
\* written last and replaces the sum).
C4_AddCarry ==
  SteppedAlu(4) =>
    LET a == prev.v[OpX(opcode)]
        b == prev.v[OpY(opcode)]
    IN  /\ status = "running"
        /\ vm.v[15] = (IF a + b > 255 THEN 1 ELSE 0)
        /\ OpX(opcode) # 15 => vm.v[OpX(opcode)] = (a + b) % 256

\* C4 happens: an 8xy4 with x # F whose sum wrapped
C4_Witness ==
  /\ SteppedAlu(4)
  /\ OpX(opcode) # 15
  /\ prev.v[OpX(opcode)] + prev.v[OpY(opcode)] > 255
  /\ vm.v[15] = 1
  /\ vm.v[OpX(opcode)] = prev.v[OpX(opcode)] + prev.v[OpY(opcode)] - 256

\* C5 as stated: after 8xy5, VF = 0 exactly when b > a and Vx = (a - b) mod
\* 256; after 8xy7, VF = 0 exactly when a > b and Vx = (b - a) mod 256.
C5_AsStated ==
  LET a == prev.v[OpX(opcode)]
      b == prev.v[OpY(opcode)]
  IN  /\ SteppedAlu(5) =>
           /\ vm.v[15] = (IF b > a THEN 0 ELSE 1)
           /\ vm.v[OpX(opcode)] = (a - b + 256) % 256
      /\ SteppedAlu(7) =>
           /\ vm.v[15] = (IF a > b THEN 0 ELSE 1)
           /\ vm.v[OpX(opcode)] = (b - a + 256) % 256

\* C5: after 8xy5, VF = 0 exactly when b > a and otherwise 1; after 8xy7,
\* VF = 0 exactly when a > b and otherwise 1; when x is not 0xF, Vx is
\* (a - b) mod 256 resp. (b - a) mod 256 (for x = 0xF the flag is written
\* last and replaces the difference).
C5_SubBorrow ==
  LET a == prev.v[OpX(opcode)]
      b == prev.v[OpY(opcode)]
  IN  /\ SteppedAlu(5) =>
           /\ status = "running"
           /\ vm.v[15] = (IF b > a THEN 0 ELSE 1)
           /\ OpX(opcode) # 15 => vm.v[OpX(opcode)] = (a - b + 256) % 256
      /\ SteppedAlu(7) =>
           /\ status = "running"
           /\ vm.v[15] = (IF a > b THEN 0 ELSE 1)
           /\ OpX(opcode) # 15 => vm.v[OpX(opcode)] = (b - a + 256) % 256

\* C5 happens: an 8xy5 with x # F that borrowed
C5_Witness ==
  /\ SteppedAlu(5)
  /\ OpX(opcode) # 15
  /\ prev.v[OpY(opcode)] > prev.v[OpX(opcode)]
  /\ vm.v[15] = 0
  /\ vm.v[OpX(opcode)] = prev.v[OpX(opcode)] - prev.v[OpY(opcode)] + 256

\* C6: every cell of the framebuffer holds 0x00 or 0xFF, in every state
\* reached by step() and step_timers() calls.
C6_PixelsBinary ==
  \A p \in 0..(FB_WIDTH * FB_HEIGHT - 1) : vm.framebuffer[p] \in {0, 255}

\* C6 happens: a draw has lit pixels and erased others (a collision), and
\* step_timers() has run since
C6_Witness ==
  /\ last = "step_timers"
  /\ OpTop(opcode) = 13
  /\ vm.v[15] = 1
  /\ \E p \in 0..(FB_WIDTH * FB_HEIGHT - 1) : vm.framebuffer[p] = 255

\* C9: load_rom succeeds exactly when 0x200 + len <= 4096 and then
\* memory[0x200 .. 0x200+len) holds the ROM and the rest of memory is as it
\* was; otherwise it ends the process with the ROM-too-large error and
\* memory is as it was before the call.
C9_LoadRom ==
  last = "load_rom" =>
    IF ROM_START + Len(rom_data) <= MEMORY_SIZE
      THEN /\ status = "running"
           /\ \A a \in 0..(MEMORY_SIZE - 1) :
                vm.memory[a] = IF a >= ROM_START /\ a < ROM_START + Len(rom_data)
                                 THEN rom_data[a - ROM_START + 1]
                                 ELSE prev.memory[a]
      ELSE /\ status = RomTooLarge
           /\ vm.memory = prev.memory

\* C9 happens: a ROM of exactly 4096 - 0x200 bytes has been loaded, its last
\* byte at the last address of memory
C9_Witness ==
  /\ last = "load_rom"
  /\ Len(rom_data) = MEMORY_SIZE - ROM_START
  /\ status = "running"
  /\ vm.memory[MEMORY_SIZE - 1] = rom_data[MEMORY_SIZE - ROM_START]
  /\ vm.memory[MEMORY_SIZE - 1] # 0

\* C10: 00EE on an empty call stack ends the step in the fatal stack
\* underflow; 00EE on a non-empty stack removes the top return address and
\* sets pc to it.
C10_Return ==
  (Stepped /\ opcode = 238) =>
    IF prev.stack = << >>
      THEN /\ status = StackUnderflow
           /\ vm.stack = << >>
      ELSE /\ status = "running"
           /\ vm.pc = prev.stack[Len(prev.stack)]
           /\ vm.stack = SubSeq(prev.stack, 1, Len(prev.stack) - 1)

\* C10 happens: a return popped the address 0x202 of a second 00EE, which
\* then ran on the emptied stack
C10_Witness ==
  /\ Stepped /\ opcode = 238 /\ prev_opcode = 238
  /\ prev.pc = ROM_START + 2
  /\ prev.stack = << >>
  /\ status = StackUnderflow

\* the n sprite rows at I lie inside memory / hold no set bit
SpriteInMemory(m, n) == m.i + n <= MEMORY_SIZE

SpriteBlank(m, n) == \A r \in 0..(n - 1) : m.memory[m.i + r] = 0

\* the framebuffer cells covered by the set bits of the n-row sprite at I,
\* anchored at column vx and row vy and wrapped on both axes
SpriteCells(m, vx, vy, n) ==
  {((vy + r) % FB_HEIGHT) * FB_WIDTH + ((vx + col) % FB_WIDTH) :
     <<r, col>> \in {rc \in (0..(n - 1)) \X (0..7) :
                        Bit(m.memory[m.i + rc[1]], 7 - rc[2]) = 1}}

\* the step now taken repeats the Dxyn of the last step, with Vx and Vy as
\* they were for it
SecondDraw ==
  /\ Stepped /\ OpTop(opcode) = 13 /\ status = "running"
  /\ last' = "step" /\ opcode' = opcode
  /\ vm.v[OpX(opcode)] = prev.v[OpX(opcode)]
  /\ vm.v[OpY(opcode)] = prev.v[OpY(opcode)]

RoundTrip(m, x) ==
  LET stored == StoreRegs(m, x, 0)
      zeroed == [stored.vm EXCEPT !.v = [r \in 0..15 |-> IF r <= x THEN 0 ELSE @[r]]]
      loaded_back == LoadRegs(zeroed, x, 0)
  IN  /\ stored.panic = "none"
      /\ stored.vm.v = m.v /\ stored.vm.i = m.i
      /\ loaded_back.panic = "none"
      /\ loaded_back.vm.v = m.v /\ loaded_back.vm.i = m.i

\* C8: wherever a program is about to execute Fx55, for any x, register
\* values and index register: Fx55, V0..Vx set to zero, Fx65 with the same I
\* restores V0..Vx, and neither instruction changes the registers above Vx
\* or I.
C8_RoundTrip ==
  (Ready /\ Fetch(vm) # -1 /\ OpTop(Fetch(vm)) = 15 /\ OpNN(Fetch(vm)) = 85)
    => RoundTrip(vm, OpX(Fetch(vm)))

\* the words of the opcode table, its patterns read literally
InTable(op) ==
  CASE OpTop(op) = 0 -> op \in {224, 238}
    [] OpTop(op) \in {5, 9} -> OpN(op) = 0
    [] OpTop(op) = 8 -> OpN(op) \in (0..7) \cup {14}
    [] OpTop(op) = 14 -> OpNN(op) \in {158, 161}
    [] OpTop(op) = 15 -> OpNN(op) \in {7, 10, 21, 24, 30, 41, 51, 85, 101}
    [] OTHER -> TRUE

\* C11: a step on a word that matches no pattern of the opcode table (00E0
\* and 00EE the only 0x0 words, 5xy0 and 9xy0 with low nibble 0, 8xy? with
\* low nibble in 0..7 or E, Ex9E, ExA1, the nine Fx words) completes,
\* advances pc by exactly 2 and changes nothing else of the machine.
C11_UnknownIsNoop ==
  (Stepped /\ ~InTable(opcode))
    => (status = "running" /\ vm = [prev EXCEPT !.pc = prev.pc + 2])

\* C12: a step on Ex9E or ExA1 completes for every value of Vx in 0..255 and
\* every key state, with pc 4 past the instruction when the skip condition
\* holds and 2 past it otherwise, and nothing else changed; and the only
\* step that ends in a fatal condition is 00EE on an empty stack.
C12_KeySkipsSucceed ==
  /\ (Stepped /\ OpTop(opcode) = 14 /\ OpNN(opcode) \in {158, 161}) =>
       /\ status = "running"
       /\ prev.v[OpX(opcode)] < 16 =>
            LET down == prev.keyboard[prev.v[OpX(opcode)]]
                skip == IF OpNN(opcode) = 158 THEN down ELSE ~down
            IN  vm = [prev EXCEPT !.pc = prev.pc + (IF skip THEN 4 ELSE 2)]
  /\ (last = "step" /\ status # "running") => (opcode = 238 /\ prev.stack = << >>)

\* the word is dispatched to the clear-screen arm or to the draw arm
Drawing(op) == op # -1 /\ (OpTop(op) = 13 \/ (OpTop(op) = 0 /\ OpNN(op) = 224))

C14_FlagSetOnlyByDraw ==
  /\ (last \in {"step", "step_timers"} /\ prev.draw_flag) => vm.draw_flag
  /\ (last = "step" /\ ~prev.draw_flag /\ vm.draw_flag)
       => (opcode = 224 \/ OpTop(opcode) = 13)
  /\ (last = "step" /\ vm.framebuffer # prev.framebuffer) => vm.draw_flag

\* C15: step_timers() decrements each of delay_timer and sound_timer by
\* exactly 1 when it is above 0 and leaves a timer that is 0 at 0, each timer
\* independently of the other; no timer wraps to 255; nothing else changes.
C15_TimersDecrement ==
  last = "step_timers" =>
    /\ vm.delay_timer = (IF prev.delay_timer > 0 THEN prev.delay_timer - 1 ELSE 0)
    /\ vm.sound_timer = (IF prev.sound_timer > 0 THEN prev.sound_timer - 1 ELSE 0)
    /\ vm = [prev EXCEPT !.delay_timer = vm.delay_timer, !.sound_timer = vm.sound_timer]
    /\ status = "running"

\* C15 happens: step_timers() took the delay timer from 1 to 0 while the
\* sound timer, already 0, stayed at 0
C15_Witness ==
  /\ last = "step_timers"
  /\ prev.delay_timer = 1 /\ prev.sound_timer = 0
  /\ vm.delay_timer = 0 /\ vm.sound_timer = 0

\* the last operation was a step on Fxnn with this nn
SteppedMisc(nn) == Stepped /\ OpTop(opcode) = 15 /\ OpNN(opcode) = nn

\* C16: for every x and every value v of Vx, Fx33 writes to memory at I,
\* I+1, I+2 the digits h, t, o, each in 0..9, with 100*h + 10*t + o = v; Vx,
\* the index register and every other memory byte are unchanged.
C16_Bcd ==
  SteppedMisc(51) =>
    /\ status = "running"
    /\ LET h == vm.memory[prev.i]
           t == vm.memory[prev.i + 1]
           o == vm.memory[prev.i + 2]
       IN  /\ {h, t, o} \subseteq 0..9
           /\ 100 * h + 10 * t + o = prev.v[OpX(opcode)]
    /\ vm.v = prev.v
    /\ vm.i = prev.i
    /\ \A a \in 0..(MEMORY_SIZE - 1) :
         a \notin {prev.i, prev.i + 1, prev.i + 2} => vm.memory[a] = prev.memory[a]

\* C17: 2nnn executed at address p pushes p + 2 and sets pc to nnn, growing
\* the stack by one; 00EE pops the most recently pushed, not yet popped
\* address into pc, shrinking the stack by one; no other opcode changes the
\* stack.
C17_CallReturn ==
  /\ (Stepped /\ OpTop(opcode) = 2) =>
       /\ status = "running"
       /\ vm.stack = Append(prev.stack, prev.pc + 2)
       /\ vm.pc = OpNNN(opcode)
  /\ (Stepped /\ opcode = 238 /\ prev.stack # << >>) =>
       /\ status = "running"
       /\ vm.pc = prev.stack[Len(prev.stack)]
       /\ vm.stack = SubSeq(prev.stack, 1, Len(prev.stack) - 1)
  /\ (last = "step" /\ OpTop(opcode) # 2 /\ opcode # 238) => vm.stack = prev.stack

\* key k is one of the 16 keys and is pressed in m
KeyDown(m, k) == k < 16 /\ m.keyboard[k]

\* op is a skip of the opcode table, and its condition holds in m
SkipOp(op) ==
  \/ OpTop(op) \in {3, 4}
  \/ (OpTop(op) \in {5, 9} /\ OpN(op) = 0)
  \/ (OpTop(op) = 14 /\ OpNN(op) \in {158, 161})

SkipHolds(m, op) ==
  CASE OpTop(op) = 3 -> m.v[OpX(op)] = OpNN(op)
    [] OpTop(op) = 4 -> m.v[OpX(op)] # OpNN(op)
    [] OpTop(op) = 5 -> m.v[OpX(op)] = m.v[OpY(op)]
    [] OpTop(op) = 9 -> m.v[OpX(op)] # m.v[OpY(op)]
    [] OpNN(op) = 158 -> KeyDown(m, m.v[OpX(op)])
    [] OTHER -> ~KeyDown(m, m.v[OpX(op)])

\* C18: for an opcode fetched at address p, after the step pc = p + 4 for a
\* skip (3xnn, 4xnn, 5xy0, 9xy0, Ex9E, ExA1) whose condition holds, nnn for
\* 1nnn and 2nnn, nnn + V0 for Bnnn, the popped address for 00EE, p for Fx0A
\* with no key pressed, and p + 2 in every other case; a skip changes nothing
\* except pc.
C18_NextPc ==
  Stepped =>
    /\ vm.pc =
         CASE SkipOp(opcode) /\ SkipHolds(prev, opcode) -> prev.pc + 4
           [] OpTop(opcode) \in {1, 2} -> OpNNN(opcode)
           [] OpTop(opcode) = 11 -> OpNNN(opcode) + prev.v[0]
           [] opcode = 238 ->
                (IF prev.stack # << >> THEN prev.stack[Len(prev.stack)] ELSE vm.pc)
           [] SteppedMisc(10) /\ (\A k \in 0..15 : ~prev.keyboard[k]) -> prev.pc
           [] OTHER -> prev.pc + 2
    /\ SkipOp(opcode) => vm = [prev EXCEPT !.pc = vm.pc]

\* C19 as stated: for every x and every value a of Vx, after 8xy6 VF = a mod
\* 2 and Vx = a div 2; after 8xyE VF = a div 128 and Vx = (2*a) mod 256; a
\* register Vy other than Vx and VF is not changed.
C19_AsStated ==
  LET x == OpX(opcode)
      y == OpY(opcode)
      a == prev.v[x]
  IN  /\ SteppedAlu(6) =>
           /\ vm.v[15] = a % 2
           /\ vm.v[x] = a \div 2
           /\ y \notin {x, 15} => vm.v[y] = prev.v[y]
      /\ SteppedAlu(14) =>
           /\ vm.v[15] = a \div 128
           /\ vm.v[x] = (2 * a) % 256
           /\ y \notin {x, 15} => vm.v[y] = prev.v[y]

\* C19: for x other than 0xF and every value a of Vx, after 8xy6 VF = a mod 2
\* and Vx = a div 2, and after 8xyE VF = a div 128 and Vx = (2*a) mod 256;
\* for x = 0xF the flag is written first and then shifted as Vx, so VF ends
\* as 0 after 8Fy6 and as 2 * (a div 128) after 8FyE.  The result does not
\* depend on Vy, and nothing changes but Vx, VF and pc.
C19_Shift ==
  LET x == OpX(opcode)
      a == prev.v[x]
      others == /\ status = "running"
                /\ \A r \in 0..14 : r # x => vm.v[r] = prev.v[r]
                /\ vm = [prev EXCEPT !.pc = prev.pc + 2, !.v = vm.v]
  IN  /\ SteppedAlu(6) =>
           /\ x # 15 => (vm.v[15] = a % 2 /\ vm.v[x] = a \div 2)
           /\ x = 15 => vm.v[15] = 0
           /\ others
      /\ SteppedAlu(14) =>
           /\ x # 15 => (vm.v[15] = a \div 128 /\ vm.v[x] = (2 * a) % 256)
           /\ x = 15 => vm.v[15] = 2 * (a \div 128)
           /\ others

\* C19 happens: 8xyE shifted the top bit of V0 = 255 into VF, beside a V1
\* that kept its 0x55
C19_Witness ==
  /\ SteppedAlu(14)
  /\ OpX(opcode) = 0 /\ OpY(opcode) = 1
  /\ prev.v[0] = 255 /\ prev.v[1] = 85
  /\ vm.v[15] = 1 /\ vm.v[0] = 254 /\ vm.v[1] = 85

\* the font region of m holds the font table
FontIntact(m) == \A k \in 1..FONT_BYTES : m.memory[FONT_START + k - 1] = FONT[k]

\* C20: for every ROM accepted by the size check, load_rom then load_font
\* and load_font then load_rom leave the same memory: the font table at
\* 0x050..0x09F, the ROM at 0x200..0x200+len-1 and 0 elsewhere; and while the
\* font region is as loaded, Fx29 with Vx = d in 0..15 sets I to 0x050 + 5*d,
\* where the five bytes of glyph d are.
C20_FontAndRom ==
  /\ (loaded = {"rom", "font"} /\ last \in {"load_rom", "load_font"} /\ status = "running") =>
       \A a \in 0..(MEMORY_SIZE - 1) :
         vm.memory[a] =
           IF a >= FONT_START /\ a < FONT_START + FONT_BYTES THEN FONT[a - FONT_START + 1]
           ELSE IF a >= ROM_START /\ a < ROM_START + Len(rom_data)
             THEN rom_data[a - ROM_START + 1]
             ELSE 0
  /\ (SteppedMisc(41) /\ prev.v[OpX(opcode)] < 16 /\ FontIntact(prev)) =>
       LET d == prev.v[OpX(opcode)]
       IN  /\ status = "running"
           /\ vm.i = FONT_START + 5 * d
           /\ \A r \in 0..4 : vm.memory[vm.i + r] = FONT[5 * d + r + 1]
           /\ vm = [prev EXCEPT !.pc = prev.pc + 2, !.i = vm.i]

\* C20 happens: the font was loaded first and then a ROM of the largest
\* accepted size, and both are in memory
C20_Witness ==
  /\ last = "load_rom" /\ loaded = {"rom", "font"} /\ status = "running"
  /\ Len(rom_data) = MEMORY_SIZE - ROM_START
  /\ FontIntact(vm)
  /\ vm.memory[ROM_START] = rom_data[1] /\ rom_data[1] # 0
  /\ vm.memory[MEMORY_SIZE - 1] = rom_data[Len(rom_data)] /\ vm.memory[MEMORY_SIZE - 1] # 0

=============================================================================
